---- MODULE Spec2Model ----
(***************************************************************************)
(* A model of hauler's content store (pkg/store/store.go): AddArtifact,    *)
(* AddCollection, Flush, Open, Walk, Identify, Copy and CopyAll over an    *)
(* OCI layout directory, with the staging layout, the blob cache and the   *)
(* oras OCI store it drives, and RelocateReference.                        *)
(***************************************************************************)
EXTENDS FiniteSets, Integers, Sequences, TLC

\* ------------------------------------------------------------------ bounds
\* Number of AddArtifact calls that may be in flight or finished.
MaxCalls == 2
\* Largest number of items in a collection.
MaxItems == 3
\* Largest number of references in the store CopyAll ranges over.
MaxRefs == 3
\* Number of Flush calls in a row.
MaxFlush == 2

\* ------------------------------------------------------------------- data
Nil == "nil"

\* The contents artifacts are made of.
Contents == {"hello", "world"}

\* Bytes of a blob: a layer with content n, or the manifest that lists layer n.
LayerData(n) == [kind |-> "layer", n |-> n]
ManifestData(n) == [kind |-> "manifest", n |-> n]
\* What a faulty producer yields in place of the layer its manifest declares.
CorruptData == [kind |-> "layer", n |-> "garbage"]

\* The content hash (collision free on the model's contents).
Hash(data) == [alg |-> "sha256", of |-> data]

\* A blob file blobs/<alg>/<digest> and the bytes it holds.
BlobFile(digest, data) == [digest |-> digest, data |-> data]

\* ocispec.Descriptor{} is the zero descriptor.
EmptyDescriptor == [mediaType |-> "", digest |-> [alg |-> "", of |-> [kind |-> "", n |-> ""]]]

\* artifact.OCI: Manifest() and the blobs it yields on demand.  fault says how
\* the producer misbehaves: "produce" fails to yield the layer, "mismatch"
\* yields bytes that are not the ones its manifest declares.
Artifacts ==
    [n : Contents, fault : {"none"}] \cup [n : {"hello"}, fault : {"produce", "mismatch"}]

Manifest(oci) == [mediaType |-> "manifest", digest |-> Hash(ManifestData(oci.n))]

\* Reference strings [registry/]repository[:tag][@digest], written as the
\* parts the slashes separate, the tag and the digest.  reg is "" and repo is
\* a sequence of path components.
RefString(reg, repo, tag, dig) ==
    [parts |-> (IF reg = "" THEN <<>> ELSE <<reg>>) \o repo, tag |-> tag, dig |-> dig]

\* The parts that hold a '.' or a ':', which is how the parser tells a
\* registry from the first component of a repository path.
DomainLike == {"reg.io", "my.org", "registry.local", "index.docker.io"}

\* Parts with characters the repository grammar does not allow.
BadNames == {"My Repo"}

\* A repository path satisfies the grammar.
ValidRepository(repo) ==
    repo # <<>> /\ \A i \in 1..Len(repo) : repo[i] \notin BadNames

\* name.DefaultRegistry and the namespace that goes with it.
DefaultRegistry == "index.docker.io"
DefaultNamespace == "library"
DefaultTag == "latest"

\* line 31
ErrInvalidReference == "invalid reference"
\* The error of the name package for a string that does not parse.
ErrBadName == "could not parse reference"
\* errors.Wrap(err, message)
Wrap(err, message) == message \o ": " \o err

\* The reference strings handed to AddArtifact.
References ==
    { RefString("", <<"myrepo">>, "", ""),
      RefString("", <<"myrepo">>, "latest", ""),
      RefString("", <<"other">>, "v1", ""),
      RefString("", <<"My Repo">>, "", "") }

\* name.ParseReference(s, WithDefaultRegistry(registry), WithDefaultTag(tag)):
\* the first part is the registry when there are more parts and it holds a
\* '.' or a ':', else the registry is the default one and every part belongs
\* to the repository; a digest reference when the string carries a digest,
\* else a tag reference; NoRef (an error) when the string fails the grammar.
NoRef == [ok |-> FALSE, registry |-> "", repository |-> <<>>, kind |-> "", identifier |-> ""]

ParseReferenceWith(s, registry, tag) ==
    LET explicit == Len(s.parts) >= 2 /\ s.parts[1] \in DomainLike
        repo == IF explicit THEN Tail(s.parts) ELSE s.parts
    IN IF ~ValidRepository(repo) THEN NoRef
       ELSE [ok         |-> TRUE,
             registry   |-> IF explicit THEN s.parts[1] ELSE registry,
             repository |-> repo,
             kind       |-> IF s.dig # "" THEN "digest" ELSE "tag",
             identifier |-> IF s.dig # "" THEN s.dig
                            ELSE IF s.tag = "" THEN tag ELSE s.tag]

\* ParseReference with the defaults of the name package left in place.
ParseReference_DockerDefaults(s) == ParseReferenceWith(s, DefaultRegistry, DefaultTag)

\* AddArtifact's parse: no default registry, default tag latest.
ParseReference(s) == ParseReferenceWith(s, "", DefaultTag)

\* ref.Context().RepositoryStr(): the repository path, with the namespace
\* library put before a single-component path on the default registry.
RepositoryStr(ref) ==
    IF Len(ref.repository) = 1 /\ ref.registry = DefaultRegistry
    THEN <<DefaultNamespace>> \o ref.repository
    ELSE ref.repository

\* ref.Name(): the reference written back as a string.
Name(ref) ==
    RefString(ref.registry, RepositoryStr(ref),
              IF ref.kind = "tag" THEN ref.identifier ELSE "",
              IF ref.kind = "digest" THEN ref.identifier ELSE "")

\* An entry of the reference index: a descriptor annotated with its name.
Entry(name, desc) == [ref |-> name, desc |-> desc]

\* A fresh staging layout (newLayout): an empty OCI layout of its own.
EmptyLayout == [blobs |-> {}, index |-> {}]

\* ------------------------------------------------------------------ state
VARIABLES
    fsBlobs,      \* <Root>/blobs: whether it exists, and the blob files in it
    fsIndex,      \* <Root>/index.json: whether it exists, and its entries
    fsLayout,     \* <Root>/oci-layout exists
    fsOther,      \* the other entries under <Root>
    fsSiblings,   \* the entries beside <Root> in its parent
    fsRoot,       \* the directory <Root> exists
    nameMap,      \* s.store's reference index in memory
    pc,           \* per call: where AddArtifact stands
    oci,          \* per call: the artifact argument
    reference,    \* per call: the reference argument
    ref,          \* per call: the parsed reference
    stage,        \* per call: its staging layout
    ret,          \* per call: the (descriptor, error) returned
    touched,      \* per call: a step of the call changed the store
    before,       \* per call: the calls that had returned when it began
    collPc,       \* AddCollection: where it stands
    cnts,         \* AddCollection: the map coll.Contents() returned
    collOrder,    \* AddCollection: the order in which the map is ranged over
    collPos,      \* AddCollection: how many items the loop has taken up
    descs,        \* AddCollection: the descriptors gathered
    collRet,      \* AddCollection: the (descriptors, error) returned
    copyPc,       \* CopyAll: where it stands
    mapperNil,    \* CopyAll: toMapper is nil
    copyOrder,    \* CopyAll: the order in which the references are ranged over
    copyPos,      \* CopyAll: how many references the loop has taken up
    copyCalls,    \* CopyAll: the calls of Copy made, in order
    target,       \* the index of the target copied to
    copyRet,      \* CopyAll: the error returned
    flushPre,     \* Flush: the directories as the last call found them
    flushLog,     \* Flush: what each call returned, in order
    last,         \* the last call of Open, Walk, Identify, Copy or CopyAll
    cacheMap,     \* s.cache: the blobs it holds, by key
    plain,        \* a Store with no cache, given the same calls
    outs,         \* what the two Stores returned for the last call
    rel           \* RelocateReference: its arguments and results

fsRest == <<fsLayout, fsOther, fsSiblings, fsRoot>>
fsVars == <<fsBlobs, fsIndex, fsRest>>
callVars == <<pc, oci, reference, ref, stage, ret, touched, before>>
collVars == <<collPc, cnts, collOrder, collPos, descs, collRet>>

copyVars == <<copyPc, mapperNil, copyOrder, copyPos, copyCalls, target, copyRet>>
flushVars == <<flushPre, flushLog>>
readVars == <<last>>
cacheVars == <<cacheMap, plain, outs>>
relocVars == <<rel>>
restVars == <<readVars, cacheVars, relocVars>>

vars == <<fsVars, nameMap, callVars, collVars, copyVars, flushVars, restVars>>

Calls == 1..MaxCalls

NoDir == [exists |-> FALSE, files |-> {}]
NoFile == [exists |-> FALSE, entries |-> {}]

\* The persistent store as the callers of AddArtifact see it.
StoreState == <<fsBlobs, fsIndex, fsLayout, nameMap>>

NoArtifact == [n |-> "", fault |-> "none"]
NoReference == RefString("", <<>>, "", "")
NoReturn == [desc |-> EmptyDescriptor, err |-> "pending"]

InitCalls ==
    /\ pc = [c \in Calls |-> "idle"]
    /\ oci = [c \in Calls |-> NoArtifact]
    /\ reference = [c \in Calls |-> NoReference]
    /\ ref = [c \in Calls |-> NoRef]
    /\ stage = [c \in Calls |-> EmptyLayout]
    /\ ret = [c \in Calls |-> NoReturn]
    /\ touched = [c \in Calls |-> FALSE]
    /\ before = [c \in Calls |-> {}]

\* NewStore on an empty directory: content.NewOCI writes the oci-layout marker
\* and starts with an empty index.
InitStore ==
    /\ fsBlobs = NoDir
    /\ fsIndex = NoFile
    /\ fsLayout = TRUE
    /\ fsOther = {}
    /\ fsSiblings = {}
    /\ fsRoot = TRUE
    /\ nameMap = {}

NoResult == [descs |-> <<>>, err |-> "pending"]

InitColl ==
    /\ collPc = "idle"
    /\ cnts = [r \in {} |-> NoArtifact]
    /\ collOrder = <<>>
    /\ collPos = 0
    /\ descs = <<>>
    /\ collRet = NoResult

InitCopy ==
    /\ copyPc = "idle"
    /\ mapperNil = TRUE
    /\ copyOrder = <<>>
    /\ copyPos = 0
    /\ copyCalls = <<>>
    /\ target = {}
    /\ copyRet = "pending"

\* The directories <Root> and its parent, taken together.
Fs == [root |-> fsRoot, blobs |-> fsBlobs, index |-> fsIndex, layout |-> fsLayout,
       other |-> fsOther, siblings |-> fsSiblings]

InitFlush ==
    /\ flushPre = Fs
    /\ flushLog = <<>>

\* No call of Open, Walk, Identify, Copy or CopyAll has been made.
NoOp ==
    [op |-> "none", desc |-> EmptyDescriptor, order |-> <<>>, failAt |-> 0,
     visited |-> <<>>, data |-> [kind |-> "", n |-> ""], mediaType |-> "", err |-> Nil, pre |-> <<NoDir, NoFile, FALSE, {}>>]

InitReads == last = NoOp

\* Nothing was added yet to the Store with a cache and the Store without.
NoOuts ==
    [cached |-> NoReturn, plain |-> NoReturn, lookup |-> "none", putFailed |-> FALSE,
     faulty |-> FALSE]

\* The uncached Store starts empty, as the cached one does (InitStore), and
\* so does the cache.
InitCache ==
    /\ cacheMap = {}
    /\ plain = [files |-> {}, index |-> {}]
    /\ outs = NoOuts

NoRelocation ==
    [pc |-> "idle", reference |-> NoReference, r1 |-> "", r2 |-> "",
     out1 |-> [ref |-> NoRef, err |-> Nil], out2 |-> [ref |-> NoRef, err |-> Nil]]

InitReloc == rel = NoRelocation

InitRest == InitReads /\ InitCache /\ InitReloc

Init == InitStore /\ InitCalls /\ InitColl /\ InitCopy /\ InitFlush /\ InitRest

\* --------------------------------------------------------- staging layout
\* stage.add(ctx, oci, ref): writes the manifest and the blobs the artifact
\* reports, verifying each digest as it is written, then names the manifest
\* by ref.  It fails when the producer fails, when the bytes produced do not
\* hash to the declared digest, or when ctx is cancelled; what was written
\* until then (part) stays in the staging directory.
StagedBlobs(a) ==
    { BlobFile(Hash(ManifestData(a.n)), ManifestData(a.n)),
      BlobFile(Hash(LayerData(a.n)), LayerData(a.n)) }

\* The files a failing add may leave behind.
PartialBlobs(a) ==
    { BlobFile(Hash(ManifestData(a.n)), ManifestData(a.n)),
      BlobFile(Hash(LayerData(a.n)),
               IF a.fault = "mismatch" THEN CorruptData ELSE LayerData(a.n)) }

StageAddError(a, cancelled) ==
    IF cancelled THEN "Canceled"
    ELSE IF a.fault # "none" THEN "ArtifactProductionError"
    ELSE Nil

StageAdd(a, r, cancelled, part) ==
    IF StageAddError(a, cancelled) = Nil
    THEN [layout |-> [blobs |-> StagedBlobs(a), index |-> {Entry(Name(r), Manifest(a))}],
          err    |-> Nil]
    ELSE [layout |-> [blobs |-> part, index |-> {}],
          err    |-> StageAddError(a, cancelled)]

\* stage.commit(ctx, s), first half: the staged blobs are copied into
\* <Root>/blobs; a blob whose digest is already there is not written again.
CommitBlobs(files, layout) ==
    files \cup {b \in layout.blobs : \A f \in files : f.digest # b.digest}

\* stage.commit(ctx, s), second half: every staged name is (re)bound to its
\* descriptor in the store's index.
CommitIndex(m, layout) ==
    {e \in m : \A n \in layout.index : n.ref # e.ref} \cup layout.index

\* The descriptor commit returns: the staged manifest's.
CommitDescriptor(layout) ==
    IF layout.index = {} THEN EmptyDescriptor
    ELSE (CHOOSE e \in layout.index : TRUE).desc

\* ------------------------------------------------------------------- Walk
\* s.store.ListReferences(): the index in memory.
ListReferences == nameMap

\* The orders in which a Go map of these entries may be ranged over.
Enumerations(entries) ==
    {q \in [1..Cardinality(entries) -> entries] :
        \A i, j \in 1..Cardinality(entries) : q[i] = q[j] => i = j}

\* Walk with the first entry of the enumeration passed over.
Walk_SkipFirst(order, failAt) ==
    [visited |-> IF order = <<>> THEN order ELSE Tail(order), err |-> Nil]

\* Walk that goes on after fn returned an error.
Walk_KeepsGoing(order, failAt) ==
    [visited |-> order, err |-> IF failAt \in 1..Len(order) THEN "VisitError" ELSE Nil]

\* Walk(fn) over the entries in the order given: fn sees one entry after the
\* other, and the first error it returns (at position failAt, 0 for never)
\* ends the walk and is returned.
Walk(order, failAt) ==
    IF failAt \in 1..Len(order)
    THEN [visited |-> SubSeq(order, 1, failAt), err |-> "VisitError"]
    ELSE [visited |-> order, err |-> Nil]

\* ------------------------------------------------------------ AddArtifact
\* StageOf with one staging directory used by every call.
StageOf_Shared(c) == 1

\* Line 57: newLayout makes a staging directory of the call's own.
StageOf(c) == c

\* Lines 57-71: newLayout, whose error is returned; then the parse, whose
\* error is returned too.
AddArtifactBegin(c, a, r, layoutFails) ==
    /\ pc[c] = "idle"
    /\ \A d \in Calls : d < c => pc[d] # "idle"
    /\ oci' = [oci EXCEPT ![c] = a]
    /\ reference' = [reference EXCEPT ![c] = r]
    /\ before' = [before EXCEPT ![c] = {d \in Calls : pc[d] = "done"}]
    /\ IF layoutFails
       THEN /\ pc' = [pc EXCEPT ![c] = "done"]
            /\ ret' = [ret EXCEPT ![c] = [desc |-> EmptyDescriptor, err |-> "LayoutError"]]
            /\ UNCHANGED <<stage, ref>>
       ELSE /\ stage' = [stage EXCEPT ![StageOf(c)] = EmptyLayout]
            /\ ref' = [ref EXCEPT ![c] = ParseReference(r)]
            /\ IF ~ParseReference(r).ok
               THEN /\ pc' = [pc EXCEPT ![c] = "done"]
                    /\ ret' = [ret EXCEPT ![c] = [desc |-> EmptyDescriptor,
                                                  err |-> Wrap(ErrBadName, "adding artifact")]]
               ELSE /\ pc' = [pc EXCEPT ![c] = "stage"]
                    /\ UNCHANGED ret
    /\ UNCHANGED <<fsVars, nameMap>>

\* AddArtifactStage with the commit run before the error is looked at: what a
\* failed add left in the staging directory reaches the store.
AddArtifactStage_CommitFirst(c) ==
    /\ pc[c] = "stage"
    /\ \E cancelled \in BOOLEAN, part \in SUBSET PartialBlobs(oci[c]) :
          LET added == StageAdd(oci[c], ref[c], cancelled, part) IN
          IF added.err # Nil
          THEN /\ stage' = [stage EXCEPT ![StageOf(c)] = EmptyLayout]
               /\ fsBlobs' = [exists |-> TRUE,
                              files |-> CommitBlobs(fsBlobs.files, added.layout)]
               /\ pc' = [pc EXCEPT ![c] = "done"]
               /\ ret' = [ret EXCEPT ![c] = [desc |-> EmptyDescriptor, err |-> added.err]]
          ELSE /\ stage' = [stage EXCEPT ![StageOf(c)] = added.layout]
               /\ pc' = [pc EXCEPT ![c] = "commit"]
               /\ UNCHANGED <<ret, fsBlobs>>
    /\ UNCHANGED <<fsIndex, fsRest, nameMap,
                   oci, reference, ref, before>>

\* Lines 73-75: stage.add; its error is returned and nothing is committed.
\* The staging directory of a failed add is abandoned where it lies: the
\* call keeps no handle on it.
AddArtifactStage(c) ==
    /\ pc[c] = "stage"
    /\ \E cancelled \in BOOLEAN :
          \E part \in IF StageAddError(oci[c], cancelled) = Nil THEN {{}}
                      ELSE SUBSET PartialBlobs(oci[c]) :
          LET added == StageAdd(oci[c], ref[c], cancelled, part) IN
          IF added.err # Nil
          THEN /\ stage' = [stage EXCEPT ![StageOf(c)] = EmptyLayout]
               /\ pc' = [pc EXCEPT ![c] = "done"]
               /\ ret' = [ret EXCEPT ![c] = [desc |-> EmptyDescriptor, err |-> added.err]]
          ELSE /\ stage' = [stage EXCEPT ![StageOf(c)] = added.layout]
               /\ pc' = [pc EXCEPT ![c] = "commit"]
               /\ UNCHANGED ret
    /\ UNCHANGED <<fsVars, nameMap, oci, reference, ref, before>>

\* Line 76, stage.commit: the blobs are copied first.
AddArtifactCommitBlobs(c) ==
    /\ pc[c] = "commit"
    /\ fsBlobs' = [exists |-> TRUE,
                   files |-> CommitBlobs(fsBlobs.files, stage[StageOf(c)])]
    /\ pc' = [pc EXCEPT ![c] = "index"]
    /\ UNCHANGED <<fsIndex, fsRest, nameMap,
                   oci, reference, ref, stage, ret, before>>

\* AddArtifactCommitIndex that leaves a name alone once it is bound: the
\* descriptor already in the index is returned.
AddArtifactCommitIndex_KeepExisting(c) ==
    /\ pc[c] = "index"
    /\ LET old == {e \in nameMap : e.ref = Name(ref[c])} IN
       IF old # {}
       THEN /\ ret' = [ret EXCEPT ![c] = [desc |-> (CHOOSE e \in old : TRUE).desc,
                                         err |-> Nil]]
            /\ UNCHANGED <<nameMap, fsIndex>>
       ELSE /\ nameMap' = CommitIndex(nameMap, stage[StageOf(c)])
            /\ fsIndex' = [exists |-> TRUE, entries |-> nameMap']
            /\ ret' = [ret EXCEPT ![c] = [desc |-> CommitDescriptor(stage[StageOf(c)]),
                                         err |-> Nil]]
    /\ stage' = [stage EXCEPT ![StageOf(c)] = EmptyLayout]
    /\ pc' = [pc EXCEPT ![c] = "done"]
    /\ UNCHANGED <<fsBlobs, fsRest,
                   oci, reference, ref, before>>

\* Line 76, stage.commit: the index is updated and saved, the staging
\* directory is removed, and the manifest's descriptor is what AddArtifact
\* returns.
AddArtifactCommitIndex(c) ==
    /\ pc[c] = "index"
    /\ nameMap' = CommitIndex(nameMap, stage[StageOf(c)])
    /\ fsIndex' = [exists |-> TRUE, entries |-> nameMap']
    /\ ret' = [ret EXCEPT ![c] = [desc |-> CommitDescriptor(stage[StageOf(c)]),
                                  err |-> Nil]]
    /\ stage' = [stage EXCEPT ![StageOf(c)] = EmptyLayout]
    /\ pc' = [pc EXCEPT ![c] = "done"]
    /\ UNCHANGED <<fsBlobs, fsRest,
                   oci, reference, ref, before>>

\* touched records whether a step of call c changed the store.
Observe(c) == touched' = [touched EXCEPT ![c] = @ \/ StoreState' # StoreState]

Next ==
    \/ \E c \in Calls :
          /\ pc[c] = "idle"
          /\ \E a \in Artifacts, r \in References, layoutFails \in BOOLEAN :
                AddArtifactBegin(c, a, r, layoutFails)
          /\ Observe(c)
          /\ UNCHANGED <<collVars, copyVars, flushVars, restVars>>
    \/ \E c \in Calls : AddArtifactStage(c) /\ Observe(c) /\ UNCHANGED <<collVars, copyVars, flushVars, restVars>>
    \/ \E c \in Calls : AddArtifactCommitBlobs(c) /\ Observe(c) /\ UNCHANGED <<collVars, copyVars, flushVars, restVars>>
    \/ \E c \in Calls : AddArtifactCommitIndex(c) /\ Observe(c) /\ UNCHANGED <<collVars, copyVars, flushVars, restVars>>

Spec == Init /\ [][Next]_vars

\* ------------------------------------------------- claims on AddArtifact
Started(c) == pc[c] # "idle"
Succeeded(c) == pc[c] = "done" /\ ret[c].err = Nil
Failed(c) == pc[c] = "done" /\ ret[c].err # Nil
\* The entries the index holds under the name call c was given.
Bound(index, c) == {e \in index : e.ref = Name(ref[c])}
\* Calls c and d ran one after the other, c first.
Sequential(c, d) == c \in before[d]
Overlapping(c, d) == c # d /\ Started(c) /\ Started(d) /\ c \notin before[d] /\ d \notin before[c]
SameName(c, d) == ref[c].ok /\ ref[d].ok /\ Name(ref[c]) = Name(ref[d])

\* C1: a call of AddArtifact that returns an error has changed nothing in the
\* store (blobs, index.json, oci-layout, the index in memory) and returns the
\* zero descriptor; no step before the commit changes the store, and the
\* commit is reached only with the whole artifact staged.
C1_FailedAddLeavesStore ==
    \A c \in Calls :
        /\ Failed(c) => ~touched[c] /\ ret[c].desc = EmptyDescriptor
        /\ pc[c] \in {"idle", "stage", "commit"} => ~touched[c]
        /\ pc[c] \in {"commit", "index"} =>
              /\ oci[c].fault = "none"
              /\ stage[StageOf(c)].blobs = StagedBlobs(oci[c])
              /\ stage[StageOf(c)].index = {Entry(Name(ref[c]), Manifest(oci[c]))}

\* C1 witness: a failed add (production error) after a committed one, and a
\* cancelled one.
C1_Witness ==
    \E c, d \in Calls :
        /\ Succeeded(d) /\ touched[d] /\ Sequential(d, c)
        /\ Failed(c) /\ ret[c].err \in {"ArtifactProductionError", "Canceled"}
        /\ nameMap # {}

SingleValued(index) == \A e1, e2 \in index : e1.ref = e2.ref => e1 = e2

\* C3: the index never holds two descriptors under one tag reference, and
\* when two successful adds under the same tag reference ran one after the
\* other (and every other add under that name had returned before the later
\* one began) the name resolves to the descriptor the later call returned.
C3_TagRefSingleLastWriteWins ==
    /\ SingleValued(nameMap)
    /\ SingleValued(fsIndex.entries)
    /\ \A c, d \in Calls :
          ( /\ Sequential(c, d) /\ Succeeded(c) /\ Succeeded(d) /\ SameName(c, d)
            /\ ref[d].kind = "tag"
            /\ \A x \in Calls \ {c, d} :
                  (Started(x) /\ SameName(x, d)) => Sequential(x, d) ) =>
              /\ ret[d].desc = Manifest(oci[d])
              /\ Bound(nameMap, d) = {Entry(Name(ref[d]), ret[d].desc)}
              /\ Bound(fsIndex.entries, d) = {Entry(Name(ref[d]), ret[d].desc)}

\* C3 witness: two successful adds in sequence, same tag reference, different
\* content.
C3_Witness ==
    \E c, d \in Calls :
        /\ Sequential(c, d) /\ Succeeded(c) /\ Succeeded(d) /\ SameName(c, d)
        /\ ref[d].kind = "tag"
        /\ oci[c].n # oci[d].n
        /\ ret[c].desc # ret[d].desc

\* No add other than c and d stands between the store as c left it and the
\* steps of d.
Undisturbed(c, d) ==
    \A x \in Calls \ {c, d} :
        Started(x) => \/ Sequential(x, c)
                      \/ ~touched[x]
                      \/ Sequential(x, d) /\ ~SameName(x, d)

\* The number of visits a walk makes to entries named as call c's reference.
Visits(walk, c) ==
    Cardinality({i \in 1..Len(walk.visited) : walk.visited[i].ref = Name(ref[c])})

\* C4: adding the same content under the same reference a second time
\* changes nothing in the store (no blob is added, the index is as it was),
\* returns the descriptor the first add returned, and a Walk afterwards
\* visits exactly one entry under that reference, in whatever order the
\* index is enumerated.
C4_ReAddIdempotent ==
    \A c, d \in Calls :
        ( /\ Sequential(c, d) /\ Succeeded(c) /\ Succeeded(d) /\ SameName(c, d)
          /\ oci[c] = oci[d]
          /\ Undisturbed(c, d) ) =>
            /\ ~touched[d]
            /\ ret[d].desc = ret[c].desc
            /\ \A order \in Enumerations(ListReferences) : Visits(Walk(order, 0), d) = 1

\* C4 witness: the same artifact added twice in sequence under one name.
C4_Witness ==
    \E c, d \in Calls :
        /\ Sequential(c, d) /\ Succeeded(c) /\ Succeeded(d) /\ SameName(c, d)
        /\ oci[c] = oci[d]
        /\ Undisturbed(c, d)
        /\ touched[c]
        /\ Cardinality(fsBlobs.files) = 2

\* C5: every blob file of the store holds bytes that hash to the digest it is
\* stored under; and a call whose artifact yields bytes that do not match the
\* digest it declares never reaches the commit, changes nothing in the store
\* and returns an error with the zero descriptor.
C5_DigestIntegrity ==
    /\ \A b \in fsBlobs.files : b.digest = Hash(b.data)
    /\ \A c \in Calls :
          (Started(c) /\ oci[c].fault = "mismatch") =>
              /\ pc[c] \notin {"commit", "index"}
              /\ ~touched[c]
              /\ pc[c] = "done" => ret[c].err # Nil /\ ret[c].desc = EmptyDescriptor

\* C5 witness: a mismatching artifact was refused while the store holds the
\* blobs of another add.
C5_Witness ==
    \E c \in Calls :
        /\ Failed(c) /\ oci[c].fault = "mismatch"
        /\ ret[c].err = "ArtifactProductionError"
        /\ fsBlobs.files # {}

\* ---------------------------------------------------------- AddCollection
\* The reference strings collections are keyed by, in the order a collection
\* lists them.
CollectionReferences ==
    << RefString("", <<"myrepo">>, "", ""),
       RefString("", <<"other">>, "v1", ""),
       RefString("", <<"library", "myrepo">>, "v2", ""),
       RefString("", <<"My Repo">>, "", "") >>

Range(q) == {q[i] : i \in 1..Len(q)}

\* coll.Contents(): a map from reference string to artifact.
Collections ==
    UNION {[keys -> Artifacts] :
              keys \in {k \in SUBSET Range(CollectionReferences) : Cardinality(k) <= MaxItems}}

\* The keys of the map as the collection lists them: items 1, 2, 3, ...
Items(m) == SelectSeq(CollectionReferences, LAMBDA r : r \in DOMAIN m)

\* Lines 81-86: Contents(), whose error is returned; then the range over the
\* map begins, in an order Go does not specify.
AddCollectionBegin(m, contentsFails, order) ==
    /\ collPc = "idle"
    /\ IF contentsFails
       THEN /\ collPc' = "done"
            /\ collRet' = [descs |-> <<>>, err |-> "ContentsError"]
            /\ UNCHANGED <<cnts, collOrder, collPos, descs>>
       ELSE /\ collPc' = "range"
            /\ cnts' = m
            /\ collOrder' = order
            /\ collPos' = 0
            /\ descs' = <<>>
            /\ UNCHANGED collRet
    /\ UNCHANGED <<fsVars, nameMap, callVars>>

\* Lines 87-88: the next pair of the range is handed to AddArtifact.
AddCollectionCall ==
    /\ collPc = "range"
    /\ collPos < Len(collOrder)
    /\ \E layoutFails \in BOOLEAN :
          AddArtifactBegin(1, cnts[collOrder[collPos + 1]], collOrder[collPos + 1], layoutFails)
    /\ collPos' = collPos + 1
    /\ collPc' = "call"
    /\ UNCHANGED <<touched, cnts, collOrder, descs, collRet>>

\* Line 88: AddArtifact runs.
AddCollectionRun ==
    /\ collPc = "call"
    /\ \/ AddArtifactStage(1)
       \/ AddArtifactCommitBlobs(1)
       \/ AddArtifactCommitIndex(1)
    /\ Observe(1)
    /\ UNCHANGED collVars

\* AddCollectionCollect that undoes the index entries of the items added so
\* far when an item fails.
AddCollectionCollect_Rollback ==
    /\ collPc = "call"
    /\ pc[1] = "done"
    /\ IF ret[1].err # Nil
       THEN /\ collRet' = [descs |-> <<>>, err |-> ret[1].err]
            /\ collPc' = "done"
            /\ nameMap' = {}
            /\ fsIndex' = [exists |-> TRUE, entries |-> {}]
            /\ UNCHANGED descs
       ELSE /\ descs' = Append(descs, ret[1].desc)
            /\ collPc' = "range"
            /\ UNCHANGED <<collRet, nameMap, fsIndex>>
    /\ pc' = [pc EXCEPT ![1] = "idle"]
    /\ oci' = [oci EXCEPT ![1] = NoArtifact]
    /\ reference' = [reference EXCEPT ![1] = NoReference]
    /\ ref' = [ref EXCEPT ![1] = NoRef]
    /\ ret' = [ret EXCEPT ![1] = NoReturn]
    /\ touched' = [touched EXCEPT ![1] = FALSE]
    /\ UNCHANGED <<fsBlobs, fsRest, stage, before, cnts, collOrder, collPos>>

\* AddCollectionCollect that returns, with the error, the descriptors
\* gathered so far.
AddCollectionCollect_ReturnsPartial ==
    /\ collPc = "call"
    /\ pc[1] = "done"
    /\ IF ret[1].err # Nil
       THEN /\ collRet' = [descs |-> descs, err |-> ret[1].err]
            /\ collPc' = "done"
            /\ UNCHANGED descs
       ELSE /\ descs' = Append(descs, ret[1].desc)
            /\ collPc' = "range"
            /\ UNCHANGED collRet
    /\ pc' = [pc EXCEPT ![1] = "idle"]
    /\ oci' = [oci EXCEPT ![1] = NoArtifact]
    /\ reference' = [reference EXCEPT ![1] = NoReference]
    /\ ref' = [ref EXCEPT ![1] = NoRef]
    /\ ret' = [ret EXCEPT ![1] = NoReturn]
    /\ touched' = [touched EXCEPT ![1] = FALSE]
    /\ UNCHANGED <<fsVars, nameMap, stage, before, cnts, collOrder, collPos>>

\* Lines 89-92: an error of AddArtifact is returned at once, with nil for the
\* descriptors; otherwise the descriptor is appended and the range goes on.
AddCollectionCollect ==
    /\ collPc = "call"
    /\ pc[1] = "done"
    /\ IF ret[1].err # Nil
       THEN /\ collRet' = [descs |-> <<>>, err |-> ret[1].err]
            /\ collPc' = "done"
            /\ UNCHANGED descs
       ELSE /\ descs' = Append(descs, ret[1].desc)
            /\ collPc' = "range"
            /\ UNCHANGED collRet
    /\ pc' = [pc EXCEPT ![1] = "idle"]
    /\ oci' = [oci EXCEPT ![1] = NoArtifact]
    /\ reference' = [reference EXCEPT ![1] = NoReference]
    /\ ref' = [ref EXCEPT ![1] = NoRef]
    /\ ret' = [ret EXCEPT ![1] = NoReturn]
    /\ touched' = [touched EXCEPT ![1] = FALSE]
    /\ UNCHANGED <<fsVars, nameMap, stage, before, cnts, collOrder, collPos>>

\* Line 95: the range is over; the descriptors are returned.
AddCollectionReturn ==
    /\ collPc = "range"
    /\ collPos = Len(collOrder)
    /\ collRet' = [descs |-> descs, err |-> Nil]
    /\ collPc' = "done"
    /\ UNCHANGED <<fsVars, nameMap, callVars, cnts, collOrder, collPos, descs>>

NextColl ==
    \/ /\ collPc = "idle"
       /\ \E m \in Collections, contentsFails \in BOOLEAN :
             \E order \in Enumerations(DOMAIN m) : AddCollectionBegin(m, contentsFails, order)
       /\ UNCHANGED <<copyVars, flushVars, restVars>>
    \/ AddCollectionCall /\ UNCHANGED <<copyVars, flushVars, restVars>>
    \/ AddCollectionRun /\ UNCHANGED <<copyVars, flushVars, restVars>>
    \/ AddCollectionCollect /\ UNCHANGED <<copyVars, flushVars, restVars>>
    \/ AddCollectionReturn /\ UNCHANGED <<copyVars, flushVars, restVars>>

SpecColl == Init /\ [][NextColl]_vars

\* ------------------------------------------------ claims on AddCollection
\* The name item i of the range is committed under.
RangedName(i) == Name(ParseReference(collOrder[i]))
\* The index after the first k items of the range were added one by one.
IndexAfter(k) ==
    {Entry(RangedName(i), Manifest(cnts[collOrder[i]])) : i \in
        {i \in 1..k : \A j \in (i + 1)..k : RangedName(j) # RangedName(i)}}
BlobsAfter(k) == UNION {StagedBlobs(cnts[collOrder[i]]) : i \in 1..k}
AddCollectionFailed == collPc = "done" /\ collRet.err \notin {Nil, "ContentsError"}

\* C6 (as amended): when AddArtifact fails for an item, AddCollection returns
\* that error at once with no descriptors; the store then holds exactly what
\* the items ranged over before the failing one committed (nothing is rolled
\* back), and nothing of the failing item or of the items the range had not
\* reached.  Which items come before the failing one is the order of the
\* range over the map, not the order the collection lists them in.
C6_FailFastKeepsEarlierItems ==
    AddCollectionFailed =>
        /\ collPos \in 1..Len(collOrder)
        /\ collRet.descs = <<>>
        /\ Len(descs) = collPos - 1
        /\ \A i \in 1..(collPos - 1) : descs[i] = Manifest(cnts[collOrder[i]])
        /\ nameMap = IndexAfter(collPos - 1)
        /\ fsIndex.entries = IndexAfter(collPos - 1)
        /\ fsBlobs.files = BlobsAfter(collPos - 1)

\* C6 witness: a collection of three items failed at the second item ranged
\* over, with the first committed.
C6_Witness ==
    /\ AddCollectionFailed
    /\ Len(collOrder) = 3
    /\ collPos = 2
    /\ collRet.err = "ArtifactProductionError"
    /\ Cardinality(nameMap) = 1

\* C6 as claimed: of a collection of three items of which item 2 fails
\* production, item 1 is committed and items 2 and 3 are absent.
C6_Item2FailsItem1Committed ==
    ( /\ collPc = "done"
      /\ Len(Items(cnts)) = 3
      /\ \A i \in 1..3 : ParseReference(Items(cnts)[i]).ok
      /\ cnts[Items(cnts)[1]].fault = "none"
      /\ cnts[Items(cnts)[2]].fault = "produce"
      /\ cnts[Items(cnts)[3]].fault = "none"
      /\ collRet.err = "ArtifactProductionError" ) =>
        /\ \E e \in ListReferences : e.ref = Name(ParseReference(Items(cnts)[1]))
        /\ \A e \in ListReferences : e.ref # Name(ParseReference(Items(cnts)[2]))
        /\ \A e \in ListReferences : e.ref # Name(ParseReference(Items(cnts)[3]))

\* ---------------------------------------------------------------- CopyAll
\* The reference strings the store CopyAll ranges over was filled under.
StoredRepositories == {<<"myrepo">>, <<"other">>, <<"library", "myrepo">>}

StoredReferences ==
    {RefString("", repo, tag, "") : repo \in StoredRepositories, tag \in {"", "v1"}}

\* The artifact added under a stored reference.
StoredArtifact(r) == [n |-> IF r.tag = "v1" THEN "world" ELSE "hello", fault |-> "none"]

\* The index of a store filled by adding StoredArtifact(r) under each r of refs.
StoredIndex(refs) == {Entry(Name(ParseReference(r)), Manifest(StoredArtifact(r))) : r \in refs}
StoredFiles(refs) == UNION {StagedBlobs(StoredArtifact(r)) : r \in refs}

\* A store that holds up to MaxRefs references, opened by NewStore.
InitFilledStore ==
    \E refs \in {k \in SUBSET StoredReferences : Cardinality(k) <= MaxRefs} :
        /\ fsBlobs = [exists |-> TRUE, files |-> StoredFiles(refs)]
        /\ fsIndex = [exists |-> TRUE, entries |-> StoredIndex(refs)]
        /\ fsLayout = TRUE
        /\ fsOther = {}
        /\ fsSiblings = {}
        /\ fsRoot = TRUE
        /\ nameMap = StoredIndex(refs)

InitCopyAll == InitFilledStore /\ InitCalls /\ InitColl /\ InitCopy /\ InitFlush /\ InitRest

\* The keys of the map ListReferences returns.
ReferenceNames == {e.ref : e \in ListReferences}
\* The descriptor the store's index binds a name to.
Resolve(name) == (CHOOSE e \in ListReferences : e.ref = name).desc

\* A toMapper that does not fail: the name moved to another registry.
Mapped(name) == [name EXCEPT !.parts = <<"registry.local">> \o @]

\* CopyAllToRef that leaves the mapper's result unused.
CopyAllToRef_AlwaysEmpty(isNil, name) == NoReference

\* Lines 150-157: toRef is "" unless there is a mapper, and then its result.
CopyAllToRef(isNil, name) == IF isNil THEN NoReference ELSE Mapped(name)

\* The name a copy arrives under: toRef, or the source name when toRef is "".
Destination(name, toRef) == IF toRef = NoReference THEN name ELSE toRef

\* The blobs a manifest's descriptor stands for: the manifest and its layer.
Closure(desc) == {desc.digest, Hash(LayerData(desc.digest.of.n))}
\* The blob file blobs/<alg>/<digest> is on disk.
Present(digest) == \E f \in fsBlobs.files : f.digest = digest

\* Lines 142-145, Copy: oras.Copy moves the manifest name resolves to, with
\* its blobs, to the target under toRef; a transfer error leaves the target's
\* index as it was, and so does a blob that cannot be read from <Root>/blobs.
Copy(to, name, toRef, fails) ==
    IF fails \/ name \notin ReferenceNames
    THEN [target |-> to, desc |-> EmptyDescriptor, err |-> "TransferError"]
    ELSE IF \E d \in Closure(Resolve(name)) : ~Present(d)
    THEN [target |-> to, desc |-> EmptyDescriptor, err |-> "NotFound"]
    ELSE [target |-> {e \in to : e.ref # Destination(name, toRef)}
                        \cup {Entry(Destination(name, toRef), Resolve(name))},
          desc |-> Resolve(name),
          err |-> Nil]

\* Line 149: the range over the references begins, in an order Go does not
\* specify.
CopyAllBegin(isNil, order) ==
    /\ copyPc = "idle"
    /\ copyPc' = "range"
    /\ mapperNil' = isNil
    /\ copyOrder' = order
    /\ copyPos' = 0
    /\ copyCalls' = <<>>
    /\ UNCHANGED <<target, copyRet>>

\* CopyAllIter with the mapper's error dropped: the copy goes on with toRef "".
CopyAllIter_MapperErrorIgnored(mapperFails, copyFails) ==
    /\ copyPc = "range"
    /\ copyPos < Len(copyOrder)
    /\ copyPos' = copyPos + 1
    /\ LET name == copyOrder[copyPos + 1]
           toRef == IF mapperFails THEN NoReference ELSE CopyAllToRef(mapperNil, name)
           copied == Copy(target, name, toRef, copyFails)
       IN /\ copyCalls' = Append(copyCalls, [ref |-> name, toRef |-> toRef, err |-> copied.err])
          /\ target' = copied.target
          /\ IF copied.err # Nil
             THEN copyRet' = copied.err /\ copyPc' = "done"
             ELSE UNCHANGED <<copyRet, copyPc>>
    /\ UNCHANGED <<mapperNil, copyOrder>>

\* Lines 149-162, one turn of the loop: the mapper's error is returned at
\* once; otherwise Copy is called, and its error is returned at once.
CopyAllIter(mapperFails, copyFails) ==
    /\ copyPc = "range"
    /\ copyPos < Len(copyOrder)
    /\ copyPos' = copyPos + 1
    /\ LET name == copyOrder[copyPos + 1]
           toRef == CopyAllToRef(mapperNil, name)
           copied == Copy(target, name, toRef, copyFails)
       IN IF ~mapperNil /\ mapperFails
          THEN /\ copyRet' = "MapperError"
               /\ copyPc' = "done"
               /\ UNCHANGED <<copyCalls, target>>
          ELSE /\ copyCalls' = Append(copyCalls, [ref |-> name, toRef |-> toRef, err |-> copied.err])
               /\ target' = copied.target
               /\ IF copied.err # Nil
                  THEN copyRet' = copied.err /\ copyPc' = "done"
                  ELSE UNCHANGED <<copyRet, copyPc>>
    /\ UNCHANGED <<mapperNil, copyOrder>>

\* Line 164: the range is over; nil is returned.
CopyAllReturn ==
    /\ copyPc = "range"
    /\ copyPos = Len(copyOrder)
    /\ copyRet' = Nil
    /\ copyPc' = "done"
    /\ UNCHANGED <<mapperNil, copyOrder, copyPos, copyCalls, target>>

NextCopyAll ==
    \/ /\ \E isNil \in BOOLEAN, order \in Enumerations(ReferenceNames) : CopyAllBegin(isNil, order)
       /\ UNCHANGED <<fsVars, nameMap, callVars, collVars, flushVars, restVars>>
    \/ /\ \E mapperFails \in BOOLEAN, copyFails \in BOOLEAN : CopyAllIter(mapperFails, copyFails)
       /\ UNCHANGED <<fsVars, nameMap, callVars, collVars, flushVars, restVars>>
    \/ /\ CopyAllReturn
       /\ UNCHANGED <<fsVars, nameMap, callVars, collVars, flushVars, restVars>>

SpecCopyAll == InitCopyAll /\ [][NextCopyAll]_vars

\* ------------------------------------------------------ claims on CopyAll
\* The target after the first k references of the range were copied.
TargetAfter(k) ==
    {Entry(Destination(copyOrder[i], CopyAllToRef(mapperNil, copyOrder[i])),
           Resolve(copyOrder[i])) : i \in 1..k}

\* C7: CopyAll stops at the first error of the mapper or of Copy and returns
\* that error; by then Copy has succeeded for exactly the references ranged
\* over before the failing one, which are on the target, and Copy was called
\* neither for a reference whose mapper failed nor for any reference after
\* the failing one.
C7_CopyAllFailFast ==
    (copyPc = "done" /\ copyRet # Nil) =>
        /\ copyPos \in 1..Len(copyOrder)
        /\ copyRet \in {"MapperError", "TransferError"}
        /\ \A i \in 1..(copyPos - 1) :
              /\ copyCalls[i].ref = copyOrder[i]
              /\ copyCalls[i].err = Nil
        /\ copyRet = "MapperError" => Len(copyCalls) = copyPos - 1
        /\ copyRet = "TransferError" =>
              /\ Len(copyCalls) = copyPos
              /\ copyCalls[copyPos].ref = copyOrder[copyPos]
              /\ copyCalls[copyPos].err = copyRet
        /\ target = TargetAfter(copyPos - 1)

\* C7 witness: of three references the mapper failed for the last but one
\* ranged over, and the one before it is on the target.
C7_Witness ==
    /\ copyPc = "done"
    /\ copyRet = "MapperError"
    /\ Len(copyOrder) = 3
    /\ copyPos = 2
    /\ Cardinality(target) = 1

\* C8: when CopyAll returns nil, Copy has been called exactly once for each
\* reference of the store's index and for nothing else, each time with the
\* mapper's result as destination, or "" when the mapper is nil, and every
\* reference is on the target under its destination.
C8_CopyAllCopiesEachOnce ==
    (copyPc = "done" /\ copyRet = Nil) =>
        /\ Len(copyCalls) = Cardinality(ReferenceNames)
        /\ {copyCalls[i].ref : i \in 1..Len(copyCalls)} = ReferenceNames
        /\ \A i \in 1..Len(copyCalls) :
              /\ copyCalls[i].err = Nil
              /\ copyCalls[i].toRef = IF mapperNil THEN NoReference
                                      ELSE Mapped(copyCalls[i].ref)
        /\ target = {Entry(IF mapperNil THEN e.ref ELSE Mapped(e.ref), e.desc) :
                        e \in ListReferences}

\* C8 witness: three references copied through a mapper.
C8_Witness ==
    /\ copyPc = "done"
    /\ copyRet = Nil
    /\ ~mapperNil
    /\ Len(copyCalls) = 3
    /\ Cardinality(target) = 3

\* ------------------------------------------------------------------ Flush
\* Blob files and index entries a store directory may hold.
SomeFiles == StagedBlobs([n |-> "hello", fault |-> "none"])
SomeEntries ==
    {Entry(Name(ParseReference(RefString("", <<"myrepo">>, "", ""))),
           Manifest([n |-> "hello", fault |-> "none"]))}
\* What else may lie under <Root>, and beside it.
OtherNames == {"ingest", "notes.txt"}
SiblingNames == {"README", "other-store"}

\* A store directory in any condition Flush may find it in: as NewStore and
\* AddArtifact leave it, flushed in part or in whole, or not there at all.
InitAnyStore ==
    /\ fsRoot \in BOOLEAN
    /\ fsBlobs \in {NoDir} \cup [exists : {TRUE}, files : SUBSET SomeFiles]
    /\ fsIndex \in {NoFile} \cup [exists : {TRUE}, entries : SUBSET SomeEntries]
    /\ fsLayout \in BOOLEAN
    /\ fsOther \in SUBSET OtherNames
    /\ fsSiblings \in SUBSET SiblingNames
    /\ ~fsRoot => fsBlobs = NoDir /\ fsIndex = NoFile /\ ~fsLayout /\ fsOther = {}
    /\ nameMap = fsIndex.entries

InitFlushing == InitAnyStore /\ InitCalls /\ InitColl /\ InitCopy /\ InitFlush /\ InitRest

\* FlushPaths with s.Root itself as the path to remove.
FlushPaths_Root == <<".", "index.json", "oci-layout">>

\* Lines 102, 107, 112: the three paths Flush removes, joined to s.Root.
FlushPaths == <<"blobs", "index.json", "oci-layout">>

Exists(fs, path) ==
    CASE path = "blobs" -> fs.blobs.exists
      [] path = "index.json" -> fs.index.exists
      [] path = "oci-layout" -> fs.layout
      [] OTHER -> fs.root

\* The directories with path and all beneath it gone.
Without(fs, path) ==
    CASE path = "blobs" -> [fs EXCEPT !.blobs = NoDir]
      [] path = "index.json" -> [fs EXCEPT !.index = NoFile]
      [] path = "oci-layout" -> [fs EXCEPT !.layout = FALSE]
      [] OTHER -> [fs EXCEPT !.root = FALSE, !.blobs = NoDir, !.index = NoFile,
                             !.layout = FALSE, !.other = {}]

\* RemoveAll that, like os.Remove, reports a path that is not there.
RemoveAll_Remove(fs, path, fails, left) ==
    IF ~Exists(fs, path) THEN [fs |-> fs, err |-> path]
    ELSE IF fails
    THEN [fs |-> IF path = "blobs" THEN [fs EXCEPT !.blobs.files = @ \cap left] ELSE fs,
          err |-> path]
    ELSE [fs |-> Without(fs, path), err |-> Nil]

\* os.RemoveAll(path) as lines 103, 108 and 113 call it: nil when the path
\* does not exist; otherwise the path and its children are removed, or, when
\* the removal fails, an error naming the path is returned with some of the
\* children (left) still there.
RemoveAll(fs, path, fails, left) ==
    IF ~Exists(fs, path) THEN [fs |-> fs, err |-> Nil]
    ELSE IF fails
    THEN [fs |-> IF path = "blobs" THEN [fs EXCEPT !.blobs.files = @ \cap left] ELSE fs,
          err |-> path]
    ELSE [fs |-> Without(fs, path), err |-> Nil]

\* Lines 101-118: blobs, index.json and oci-layout are removed in this order;
\* the first error is returned and ends the call.  failAt is the path whose
\* removal fails, if any.
FlushResult(fs, failAt, left) ==
    LET first == RemoveAll(fs, FlushPaths[1], failAt = FlushPaths[1], left)
        second == RemoveAll(first.fs, FlushPaths[2], failAt = FlushPaths[2], left)
        third == RemoveAll(second.fs, FlushPaths[3], failAt = FlushPaths[3], left)
    IN IF first.err # Nil THEN first
       ELSE IF second.err # Nil THEN second
       ELSE third

Flush(failAt, left) ==
    /\ Len(flushLog) < MaxFlush
    /\ LET out == FlushResult(Fs, failAt, left) IN
          /\ fsRoot' = out.fs.root
          /\ fsBlobs' = out.fs.blobs
          /\ fsIndex' = out.fs.index
          /\ fsLayout' = out.fs.layout
          /\ fsOther' = out.fs.other
          /\ fsSiblings' = out.fs.siblings
          /\ flushLog' = Append(flushLog, out.err)
    /\ flushPre' = Fs
    /\ UNCHANGED <<nameMap, callVars, collVars, copyVars>>

NextFlush ==
    \E failAt \in {"none", "blobs", "index.json", "oci-layout"}, left \in SUBSET SomeFiles :
        Flush(failAt, left) /\ UNCHANGED restVars

SpecFlush == InitFlushing /\ [][NextFlush]_vars

\* -------------------------------------------------------- claims on Flush
Flushed == Len(flushLog) > 0
LastFlush == flushLog[Len(flushLog)]
NoneOfTheThree(fs) == ~fs.blobs.exists /\ ~fs.index.exists /\ ~fs.layout

\* C9: whatever Flush returns, the store root is there if it was, and all
\* that lies under it besides blobs, index.json and oci-layout, and all that
\* lies beside it, is as it was; when Flush returns nil, none of blobs,
\* index.json and oci-layout is left under the root.
C9_FlushRemovesOnlyTheThree ==
    Flushed =>
        /\ fsRoot = flushPre.root
        /\ fsOther = flushPre.other
        /\ fsSiblings = flushPre.siblings
        /\ LastFlush = Nil => NoneOfTheThree(Fs) /\ fsBlobs.files = {} /\ fsIndex.entries = {}

\* C9 witness: a Flush that returned nil on a store holding blobs, an index,
\* the marker, other files, and with siblings.
C9_Witness ==
    /\ Flushed
    /\ LastFlush = Nil
    /\ flushPre.root
    /\ flushPre.blobs.files # {} /\ flushPre.index.entries # {} /\ flushPre.layout
    /\ fsRoot
    /\ fsOther = OtherNames
    /\ fsSiblings = SiblingNames

\* C10: a path that is absent is never an error for Flush (an error names a
\* path that was there); on a store with none of the three (flushed, empty or
\* not there at all) Flush returns nil and changes nothing; and a Flush after
\* a Flush that returned nil returns nil and leaves what the first left.
C10_FlushIdempotent ==
    Flushed =>
        /\ LastFlush # Nil => Exists(flushPre, LastFlush)
        /\ NoneOfTheThree(flushPre) => LastFlush = Nil /\ Fs = flushPre
        /\ \A i \in 2..Len(flushLog) :
              flushLog[i - 1] = Nil =>
                  /\ flushLog[i] = Nil
                  /\ i = Len(flushLog) => Fs = flushPre

\* C10 witness: a second Flush of a store, after a first that returned nil,
\* with other files still under the root.
C10_Witness ==
    /\ Len(flushLog) = 2
    /\ flushLog[1] = Nil
    /\ flushLog[2] = Nil
    /\ Fs = flushPre
    /\ fsRoot
    /\ fsOther # {}

\* ------------------------------------------- Open, Walk, Identify and Copy
\* The descriptors handed to Open and Identify: the manifests and layers of
\* the model's contents.
Descriptors ==
    {[mediaType |-> "manifest", digest |-> Hash(ManifestData(n))] : n \in Contents}
        \cup {[mediaType |-> "layer", digest |-> Hash(LayerData(n))] : n \in Contents}

NoData == [kind |-> "", n |-> ""]

\* s.store.ReaderAt / s.store.Fetch: the bytes of the blob file the
\* descriptor's digest names, or NotFound when there is no such file.
Fetch(desc) ==
    IF Present(desc.digest)
    THEN [data |-> (CHOOSE f \in fsBlobs.files : f.digest = desc.digest).data, err |-> Nil]
    ELSE [data |-> NoData, err |-> "NotFound"]

\* The config media type a manifest declares.
ConfigMediaType == "application/vnd.hauler.config"

\* Lines 175-184: the bytes decoded as a manifest; what is no manifest
\* decodes to no config media type, or does not decode at all.
Decode(data) == IF data.kind = "manifest" THEN ConfigMediaType ELSE ""

\* Each read is made of the store as AddArtifact and Flush left it, with no
\* CopyAll ranging over it.
Quiet == copyPc = "idle" /\ target = {} /\ last.op = "none"

\* Lines 120-127: Open returns a reader over the blob, or ReaderAt's error.
Open(desc) ==
    /\ Quiet
    /\ last' = [NoOp EXCEPT !.op = "Open", !.desc = desc, !.pre = StoreState,
                            !.data = Fetch(desc).data, !.err = Fetch(desc).err]
    /\ UNCHANGED <<fsVars, nameMap, copyVars>>

\* Lines 129-138: Walk ranges over s.store.ListReferences() in an order Go
\* does not specify; fn fails at the failAt-th descriptor it is handed (0 for
\* never).
WalkCall(order, failAt) ==
    /\ Quiet
    /\ last' = [NoOp EXCEPT !.op = "Walk", !.order = order, !.failAt = failAt,
                            !.pre = StoreState,
                            !.visited = Walk(order, failAt).visited,
                            !.err = Walk(order, failAt).err]
    /\ UNCHANGED <<fsVars, nameMap, copyVars>>

\* Lines 168-185: Identify returns the config media type of the manifest the
\* descriptor names, and "" when the fetch or the decoding fails.
Identify(desc) ==
    /\ Quiet
    /\ last' = [NoOp EXCEPT !.op = "Identify", !.desc = desc, !.pre = StoreState,
                            !.mediaType = IF Fetch(desc).err # Nil THEN ""
                                          ELSE Decode(Fetch(desc).data)]
    /\ UNCHANGED <<fsVars, nameMap, copyVars>>

\* CopyCall with source and target the wrong way round: the name is bound in
\* s.store.
CopyCall_IntoSource(name, toRef, fails) ==
    /\ Quiet
    /\ LET copied == Copy(target, name, toRef, fails) IN
          /\ nameMap' = IF copied.err = Nil
                        THEN nameMap \cup {Entry(Destination(name, toRef), copied.desc)}
                        ELSE nameMap
          /\ last' = [NoOp EXCEPT !.op = "Copy", !.desc = copied.desc, !.pre = StoreState,
                                  !.err = copied.err]
    /\ UNCHANGED <<fsVars, copyVars>>

\* Lines 142-145: one call of Copy.
CopyCall(name, toRef, fails) ==
    /\ Quiet
    /\ LET copied == Copy(target, name, toRef, fails) IN
          /\ target' = copied.target
          /\ last' = [NoOp EXCEPT !.op = "Copy", !.desc = copied.desc, !.pre = StoreState,
                                  !.err = copied.err]
    /\ UNCHANGED <<fsVars, nameMap, copyPc, mapperNil, copyOrder, copyPos, copyCalls, copyRet>>

\* Flush of the store the reads are then made of.
FlushCall(failAt, left) ==
    /\ Quiet
    /\ flushLog = <<>>
    /\ Flush(failAt, left)
    /\ UNCHANGED last

\* The names handed to Copy: those of the index, and one that is not there.
CopyNames == ReferenceNames \cup {RefString("", <<"absent">>, "", "")}

NextReads ==
    \/ /\ \E failAt \in {"none", "blobs", "index.json", "oci-layout"}, left \in SUBSET SomeFiles :
             FlushCall(failAt, left)
       /\ UNCHANGED <<cacheVars, relocVars>>
    \/ /\ \E desc \in Descriptors : Open(desc)
       /\ UNCHANGED <<callVars, collVars, flushVars, cacheVars, relocVars>>
    \/ /\ \E order \in Enumerations(ListReferences) :
             \E failAt \in 0..Len(order) : WalkCall(order, failAt)
       /\ UNCHANGED <<callVars, collVars, flushVars, cacheVars, relocVars>>
    \/ /\ \E desc \in Descriptors : Identify(desc)
       /\ UNCHANGED <<callVars, collVars, flushVars, cacheVars, relocVars>>
    \/ /\ \E name \in CopyNames, isNil \in BOOLEAN, fails \in BOOLEAN :
             CopyCall(name, CopyAllToRef(isNil, name), fails)
       /\ UNCHANGED <<callVars, collVars, flushVars, cacheVars, relocVars>>
    \/ /\ Quiet
       /\ \E isNil \in BOOLEAN, order \in Enumerations(ReferenceNames) : CopyAllBegin(isNil, order)
       /\ last' = [NoOp EXCEPT !.op = "CopyAll", !.pre = StoreState]
       /\ UNCHANGED <<fsVars, nameMap, callVars, collVars, flushVars, cacheVars, relocVars>>
    \/ /\ \E mapperFails \in BOOLEAN, copyFails \in BOOLEAN : CopyAllIter(mapperFails, copyFails)
       /\ UNCHANGED <<fsVars, nameMap, callVars, collVars, flushVars, restVars>>
    \/ /\ CopyAllReturn
       /\ UNCHANGED <<fsVars, nameMap, callVars, collVars, flushVars, restVars>>

SpecReads == InitCopyAll /\ [][NextReads]_vars

\* ------------------------------------------------------------------ cache
\* The key a blob is cached under: the digest its manifest declares.
CacheKey(a) == Hash(LayerData(a.n))

\* What a lookup of the artifact's blob comes to: the get fails, or finds
\* the key, or does not.
Lookup(a, cache, getFails) ==
    IF getFails THEN "getError"
    ELSE IF \E e \in cache : e.key = CacheKey(a) THEN "hit"
    ELSE "miss"

\* The bytes the artifact's own producer yields, if it yields any.
Produced(a) ==
    CASE a.fault = "none" -> {LayerData(a.n)}
      [] a.fault = "mismatch" -> {CorruptData}
      [] OTHER -> {}

\* CacheOci that gives up when the cache's get fails.
CacheOci_GetErrorFails(a, cache, getFails) ==
    IF Lookup(a, cache, getFails) = "hit"
    THEN [n |-> a.n,
          fault |-> IF (CHOOSE e \in cache : e.key = CacheKey(a)).data = LayerData(a.n)
                    THEN "none" ELSE "mismatch"]
    ELSE IF getFails THEN [n |-> a.n, fault |-> "produce"]
    ELSE a

\* cache.Oci(oci, s.cache): the artifact whose blob comes from the cache on a
\* hit, without the producer being invoked, and from the producer on a miss
\* or when the get fails.  The artifact returned is written as the artifact
\* that yields those bytes.
CacheOci(a, cache, getFails) ==
    IF Lookup(a, cache, getFails) = "hit"
    THEN [n |-> a.n,
          fault |-> IF (CHOOSE e \in cache : e.key = CacheKey(a)).data = LayerData(a.n)
                    THEN "none" ELSE "mismatch"]
    ELSE a

\* The cache after the blob was asked for: on a miss what the producer
\* yielded is put under the key, unless the put fails.
CachePut(a, cache, getFails, putFails) ==
    IF Lookup(a, cache, getFails) = "miss" /\ ~putFails
    THEN cache \cup {[key |-> CacheKey(a), data |-> d] : d \in Produced(a)}
    ELSE cache

\* Lines 56-77 run from beginning to end on a store with these blob files
\* and this index: the store after the call, what the call returns, and
\* whether it came to ask the artifact for its blob.
AddArtifactOn(store, a, r) ==
    LET parsed == ParseReference(r)
        added == StageAdd(a, parsed, FALSE, {})
    IN IF ~parsed.ok
       THEN [files |-> store.files, index |-> store.index, staged |-> FALSE,
             ret |-> [desc |-> EmptyDescriptor, err |-> Wrap(ErrBadName, "adding artifact")]]
       ELSE IF added.err # Nil
       THEN [files |-> store.files, index |-> store.index, staged |-> TRUE,
             ret |-> [desc |-> EmptyDescriptor, err |-> added.err]]
       ELSE [files |-> CommitBlobs(store.files, added.layout),
             index |-> CommitIndex(store.index, added.layout), staged |-> TRUE,
             ret |-> [desc |-> CommitDescriptor(added.layout), err |-> Nil]]

\* One call of AddArtifact made of a Store with a cache (lines 62-65) and of
\* a Store without, both holding what the same calls before left.
AddArtifactBoth(a, r, getFails, putFails) ==
    LET with == AddArtifactOn([files |-> fsBlobs.files, index |-> nameMap],
                              CacheOci(a, cacheMap, getFails), r)
        without == AddArtifactOn(plain, a, r)
    IN /\ fsBlobs' = IF with.ret.err = Nil THEN [exists |-> TRUE, files |-> with.files]
                     ELSE fsBlobs
       /\ nameMap' = with.index
       /\ fsIndex' = IF with.ret.err = Nil THEN [exists |-> TRUE, entries |-> with.index]
                     ELSE fsIndex
       /\ plain' = [files |-> without.files, index |-> without.index]
       /\ cacheMap' = IF with.staged THEN CachePut(a, cacheMap, getFails, putFails)
                      ELSE cacheMap
       /\ outs' = [cached |-> with.ret, plain |-> without.ret,
                   lookup |-> IF with.staged THEN Lookup(a, cacheMap, getFails) ELSE "none",
                   putFailed |-> with.staged /\ putFails
                                   /\ Lookup(a, cacheMap, getFails) = "miss",
                   faulty |-> outs.faulty \/ a.fault # "none"]
       /\ UNCHANGED <<fsRest, callVars, collVars, copyVars, flushVars, readVars, relocVars>>

NextCache ==
    \E a \in Artifacts, r \in References, getFails \in BOOLEAN, putFails \in BOOLEAN :
        AddArtifactBoth(a, r, getFails, putFails)

SpecCache == Init /\ [][NextCache]_vars

C13_InvalidReferenceError ==
    \A c \in Calls :
        (pc[c] = "done" /\ ~ParseReference(reference[c]).ok /\ ret[c].err # "LayoutError") =>
            /\ ret[c].err = ErrInvalidReference
            /\ ret[c].desc = EmptyDescriptor
            /\ ~touched[c]

\* The index entries whose name has myrepo as its repository.
UnderMyrepo(index) ==
    {e \in index : e.ref.parts[Len(e.ref.parts)] = "myrepo"}

\* C14: a reference given to AddArtifact without a registry is committed
\* under a name with no registry before the repository, and one given
\* without a tag under the tag latest: successful adds under myrepo and
\* under myrepo:latest are bound to the one index entry myrepo:latest.
C14_NoRegistryDefaultTagLatest ==
    \A c \in Calls :
        Succeeded(c) =>
            /\ ref[c].registry = ""
            /\ \E e \in nameMap :
                  /\ e.ref.parts = reference[c].parts
                  /\ e.ref.tag = IF reference[c].tag = "" THEN "latest" ELSE reference[c].tag
                  /\ e.ref.dig = ""
            /\ reference[c] \in {RefString("", <<"myrepo">>, "", ""),
                                 RefString("", <<"myrepo">>, "latest", "")} =>
                  /\ Cardinality(UnderMyrepo(nameMap)) = 1
                  /\ \A e \in UnderMyrepo(nameMap) \cup UnderMyrepo(fsIndex.entries) :
                        e.ref = [parts |-> <<"myrepo">>, tag |-> "latest", dig |-> ""]

\* C14 witness: one add under myrepo and one under myrepo:latest, both
\* successful, and a single entry in the index.
C14_Witness ==
    \E c, d \in Calls :
        /\ Succeeded(c) /\ reference[c] = RefString("", <<"myrepo">>, "", "")
        /\ Succeeded(d) /\ reference[d] = RefString("", <<"myrepo">>, "latest", "")
        /\ Cardinality(nameMap) = 1

\* ------------------------------------------------------ RelocateReference
\* name.NewDigest(s): a digest reference, or an error when s carries no
\* digest.
NewDigest(s) ==
    IF s.dig = "" THEN NoRef ELSE ParseReferenceWith(s, DefaultRegistry, DefaultTag)

\* relocated.Context().Tag(identifier) and .Digest(identifier): the
\* repository with the identifier put to it.
WithIdentifier(repository, kind, identifier) ==
    [ok |-> TRUE, registry |-> repository.registry, repository |-> repository.repository,
     kind |-> kind, identifier |-> identifier]

\* Lines 188-203: the reference is parsed with the defaults of the name
\* package; its repository path, as a string, is parsed again with registry
\* as the default registry; the identifier of the first parse is put to the
\* repository of the second, as a digest when the name of the first parses
\* as a digest and as a tag otherwise.
RelocateReference(s, registry) ==
    LET parsed == ParseReferenceWith(s, DefaultRegistry, DefaultTag)
        relocated == ParseReferenceWith(RefString("", RepositoryStr(parsed), "", ""),
                                        registry, DefaultTag)
    IN IF ~parsed.ok THEN [ref |-> NoRef, err |-> ErrBadName]
       ELSE IF ~relocated.ok THEN [ref |-> NoRef, err |-> ErrBadName]
       ELSE IF NewDigest(Name(parsed)).ok
       THEN [ref |-> WithIdentifier(relocated, "digest", parsed.identifier), err |-> Nil]
       ELSE [ref |-> WithIdentifier(relocated, "tag", parsed.identifier), err |-> Nil]

\* The reference strings handed to RelocateReference.
RelocationPaths ==
    {<<"myrepo">>, <<"library", "myrepo">>, <<"rancher", "app">>, <<"my.org", "app">>,
     <<"My Repo">>}
RelocationReferences ==
    {RefString(reg, repo, tag, dig) :
        reg \in {"", "reg.io"}, repo \in RelocationPaths,
        tag \in {"", "v1"}, dig \in {"", "sha256:0a0a"}}
\* The registries references are relocated to.
Registries == {"registry.local", "myregistry"}

\* A call of RelocateReference.
Relocate(s, registry) ==
    /\ rel.pc = "idle"
    /\ rel' = [rel EXCEPT !.pc = "once", !.reference = s, !.r1 = registry,
                          !.out1 = RelocateReference(s, registry)]
    /\ UNCHANGED <<fsVars, nameMap, callVars, collVars, copyVars, flushVars, readVars, cacheVars>>

\* A call of RelocateReference on the name of the reference the first call
\* returned.
RelocateAgain(registry) ==
    /\ rel.pc = "once"
    /\ rel.out1.err = Nil
    /\ rel' = [rel EXCEPT !.pc = "twice", !.r2 = registry,
                          !.out2 = RelocateReference(Name(rel.out1.ref), registry)]
    /\ UNCHANGED <<fsVars, nameMap, callVars, collVars, copyVars, flushVars, readVars, cacheVars>>

NextRelocate ==
    \/ \E s \in RelocationReferences, registry \in Registries : Relocate(s, registry)
    \/ \E registry \in Registries : RelocateAgain(registry)

SpecRelocate == Init /\ [][NextRelocate]_vars

\* ---------------------------------------------- claims on RelocateReference
\* The reference string parses.
Parsable(s) == ParseReferenceWith(s, DefaultRegistry, DefaultTag).ok
\* The repository path of the reference the string parses to.
PathOf(s) == RepositoryStr(ParseReferenceWith(s, DefaultRegistry, DefaultTag))
\* The kind of identifier the string carries.
KindOf(s) == IF s.dig # "" THEN "digest" ELSE "tag"
IdentifierOf(s) == IF s.dig # "" THEN s.dig ELSE IF s.tag # "" THEN s.tag ELSE DefaultTag

\* C15: RelocateReference of a parsable reference returns a reference on the
\* registry given, with the repository path and the identifier, in kind and
\* value, of the input; of an unparsable one it returns ErrInvalidReference.
C15_RelocatePreserves ==
    rel.pc # "idle" =>
        IF Parsable(rel.reference)
        THEN /\ rel.out1.err = Nil
             /\ rel.out1.ref.registry = rel.r1
             /\ RepositoryStr(rel.out1.ref) = PathOf(rel.reference)
             /\ rel.out1.ref.kind = KindOf(rel.reference)
             /\ rel.out1.ref.identifier = IdentifierOf(rel.reference)
        ELSE rel.out1.err = ErrInvalidReference

\* C16: relocating to R1 and then to R2 succeeds and gives a reference on R2
\* with the repository path and the identifier kind of the first input.
C16_RelocateComposes ==
    (rel.pc # "idle" /\ Parsable(rel.reference)) =>
        /\ rel.out1.err = Nil
        /\ rel.pc = "twice" =>
              /\ rel.out2.err = Nil
              /\ rel.out2.ref.registry = rel.r2
              /\ RepositoryStr(rel.out2.ref) = PathOf(rel.reference)
              /\ rel.out2.ref.kind = KindOf(rel.reference)

\* --------------------------------------------- claims on Flush and reads
\* C11: after a Flush that returned nil, of a store that AddArtifact had
\* filled, Walk on the same Store visits nothing, CopyAll copies nothing to
\* its target, and Open of any descriptor fails with NotFound.
C11_FlushFullyClears ==
    (Flushed /\ LastFlush = Nil) =>
        /\ last.op = "Walk" => last.visited = <<>>
        /\ last.op = "CopyAll" => target = {}
        /\ last.op = "Open" => last.err = "NotFound"

\* C17: Walk hands fn each entry of the store's index once, in the order of
\* the range; when fn returns an error that entry is the last one handed to
\* fn and Walk returns the error; when fn returns none, every entry was
\* handed to fn and Walk returns nil.
C17_WalkVisitsEachUntilError ==
    last.op = "Walk" =>
        /\ \A i, j \in 1..Len(last.visited) : last.visited[i] = last.visited[j] => i = j
        /\ \A i \in 1..Len(last.visited) : last.visited[i] = last.order[i]
        /\ Range(last.order) = ListReferences
        /\ IF last.failAt = 0
           THEN /\ last.err = Nil
                /\ Range(last.visited) = ListReferences
           ELSE /\ last.err = "VisitError"
                /\ Len(last.visited) = last.failAt

\* C17 witness: a Walk over three entries that fn stopped at the second.
C17_Witness ==
    /\ last.op = "Walk"
    /\ Cardinality(ListReferences) = 3
    /\ last.failAt = 2
    /\ Len(last.visited) = 2
    /\ last.err = "VisitError"

\* Call c is between newLayout and its return.
InFlight(c) == pc[c] \in {"stage", "commit", "index"}

\* C18: no two calls of AddArtifact in flight use the same staging layout;
\* what a call is about to commit is what its own artifact staged, under
\* its own name; and the descriptor a successful call returns is that of
\* its own artifact, whose blobs are in the store.
C18_OwnStagingLayout ==
    \A c \in Calls :
        /\ \A d \in Calls \ {c} : (InFlight(c) /\ InFlight(d)) => StageOf(c) # StageOf(d)
        /\ pc[c] \in {"commit", "index"} =>
              /\ stage[StageOf(c)].blobs = StagedBlobs(oci[c])
              /\ stage[StageOf(c)].index = {Entry(Name(ref[c]), Manifest(oci[c]))}
        /\ Succeeded(c) =>
              /\ ret[c].desc = Manifest(oci[c])
              /\ StagedBlobs(oci[c]) \subseteq fsBlobs.files

\* C18 witness: two calls with different content, both staged, one of them
\* half way through its commit.
C18_Witness ==
    \E c, d \in Calls :
        /\ pc[c] = "commit" /\ pc[d] = "index"
        /\ oci[c].n # oci[d].n
        /\ stage[StageOf(c)] # stage[StageOf(d)]

\* C19: AddCollection returns nil for the error and one descriptor for each
\* pair of the collection, each the one AddArtifact returned for the pair,
\* in the order of the range; or it returns an error and no descriptors,
\* whatever was committed before.
C19_AddCollectionReturns ==
    collPc = "done" =>
        IF collRet.err = Nil
        THEN /\ Len(collRet.descs) = Cardinality(DOMAIN cnts)
             /\ Range(collOrder) = DOMAIN cnts
             /\ \A i \in 1..Len(collRet.descs) :
                   collRet.descs[i] = Manifest(cnts[collOrder[i]])
        ELSE collRet.descs = <<>>

\* C19 witness: the third item failed after two were committed and their
\* descriptors gathered.
C19_Witness ==
    /\ collPc = "done"
    /\ collRet.err = "ArtifactProductionError"
    /\ collRet.descs = <<>>
    /\ Len(descs) = 2
    /\ Cardinality(nameMap) = 2

\* C20: a call of Open, Walk, Identify, Copy or CopyAll, whatever it
\* returns, leaves the blobs, index.json, oci-layout and the index in memory
\* as it found them.
C20_ReadsLeaveStore ==
    last.op \in {"Open", "Walk", "Identify", "Copy", "CopyAll"} => StoreState = last.pre

\* C20 witness: a CopyAll that copied three references and returned nil.
C20_Witness ==
    /\ last.op = "CopyAll"
    /\ copyPc = "done"
    /\ copyRet = Nil
    /\ Cardinality(target) = 3
    /\ Cardinality(nameMap) = 3
    /\ fsBlobs.files # {}

====
